---- MODULE Spec2Model ----
(***************************************************************************)
(* Model of sales_agent_SDR.py: the main() driver, the SalesAgentSystem    *)
(* constructor, the basic workflow (asyncio.gather fan-out of three        *)
(* generator agents followed by the picker agent) and the automated SDR    *)
(* workflow (Sales Manager agent with three generator tools and a handoff  *)
(* to the Email Manager agent, which owns the send_html_email tool).       *)
(*                                                                         *)
(* What a language-model agent answers is not decided by this program:     *)
(* every agent turn is a nondeterministic choice among the steps the       *)
(* program makes available to that agent (its tools=[...] and              *)
(* handoffs=[...] lists), a final output, or a failure of the call.        *)
(***************************************************************************)
EXTENDS Integers, Sequences, FiniteSets, TLC

\* ---------------------------------------------------------------- bounds
\* Turns one Runner.run of the Sales Manager may take in the model.
MaxTurns == 8
\* Longest candidate list handed to select_best_email in SpecSelect.
MaxLen == 3
\* Send tool calls made in SpecSend.
MaxCalls == 4

\* ------------------------------------------------------ program constants
\* The three Runner.run(...) arguments of asyncio.gather.
NumGenerators == 3
\* The status code both send tools and send_test_email compare against.
ACCEPTED == 202

Generators == 1..NumGenerators

\* Texts a generator agent may produce, and texts any agent may answer.
Texts == {"t1", "t2", "t3"}
AllTexts == Texts \cup {"other"}
NoText == "none"

\* Answers of the email provider to one post(): a status code.
StatusCodes == {200, 202, 500}

\* Values of an environment variable after load_dotenv(override=True).
EnvValues == {"absent", "empty", "set"}

\* Prompt pieces of select_best_email.
HEADER == "Cold sales emails:\n\n"
SEPARATOR == "\n\nEmail:\n\n"

VARIABLES
    TEST_MODE,      \* module-level flag
    openaiKey,      \* os.environ.get('OPENAI_API_KEY')
    sendgridKey,    \* os.environ.get('SENDGRID_API_KEY')
    pc,             \* position of main()
    mainResult,     \* how main() ended, as printed to the operator
    agentsReady,    \* _setup_agents has run
    toolsReady,     \* _setup_tools has run
    testSends,      \* provider posts made by send_test_email
    testAnswer,     \* what the provider did with the test email
    branch,         \* state of each gather branch
    genOut,         \* final_output of the Runner.run of generator i
    order,          \* order in which the branches completed
    outputs,        \* list returned by generate_parallel_emails
    pickerCalls,    \* invocations of the Sales Picker agent
    pickerPrompt,   \* input given to the Sales Picker agent
    best,           \* value returned by select_best_email
    curAgent,       \* agent currently driven by Runner.run(sales_manager)
    turns,          \* turns taken by that run
    drafted,        \* generator tools that returned a draft to the manager
    handoffs,       \* handoffs to the Email Manager
    subjectDone,    \* subject_writer tool has returned
    htmlDone,       \* html_converter tool has returned
    sendAttempts,   \* invocations of send_html_email
    providerPosts,  \* provider posts made by send_html_email
    lastSend,       \* value returned by the last send tool call
    lastAnswer,     \* what the provider did in the last send tool call
    lastTool,       \* the send tool called last
    finalOutput,    \* result.final_output of the manager run
    errors          \* kinds of error that occurred during the run

vars == << TEST_MODE, openaiKey, sendgridKey, pc, mainResult, agentsReady,
           toolsReady, testSends, testAnswer, lastAnswer, lastTool, branch, genOut, order, outputs,
           pickerCalls, pickerPrompt, best, curAgent, turns, drafted,
           handoffs, subjectDone, htmlDone, sendAttempts, providerPosts,
           lastSend, finalOutput, errors >>

configVars == << TEST_MODE, openaiKey, sendgridKey >>
setupVars == << agentsReady, toolsReady >>
gatherVars == << branch, genOut, order, outputs >>
pickerVars == << pickerCalls, pickerPrompt, best >>
sdrVars == << curAgent, turns, drafted, handoffs, subjectDone, htmlDone,
              sendAttempts, providerPosts, lastSend, lastAnswer, lastTool,
              finalOutput >>
testVars == << testSends, testAnswer >>

NoSend == [status |-> "none", status_code |-> 0, message |-> ""]

\* The provider has not been asked.
NoAnswer == [posted |-> FALSE, raised |-> FALSE, code |-> 0]

\* Outcome of one sg.client.mail.send.post(...): it raised, or it answered
\* with a status code.
Answer(raised, code) ==
    [posted |-> TRUE, raised |-> raised, code |-> IF raised THEN 0 ELSE code]

\* --------------------------------------------------------------- helpers
\* Python truthiness of os.environ.get(name): None and "" are falsy.
Truthy(v) == v = "set"

Range(s) == { s[i] : i \in 1..Len(s) }

RECURSIVE Join(_, _)
\* sep.join(items), kept as the sequence of its pieces.
Join(items, sep) ==
    IF Len(items) = 0 THEN << >>
    ELSE IF Len(items) = 1 THEN << items[1] >>
    ELSE << items[1], sep >> \o Join(Tail(items), sep)

\* email_options of select_best_email.
EmailOptions(emails) == << HEADER >> \o Join(emails, SEPARATOR)

\* All sequences over S of length at most n.
BoundedSeq(S, n) == UNION { [1..k -> S] : k \in 0..n }

\* ----------------------------------------------------------- constructor
\* ConfigError with "is None" tests in place of truthiness: an empty value
\* passes as a credential.
ConfigErrorNoneOnly(testMode, okey, skey) ==
    IF okey = "absent" THEN "openai"
    ELSE IF ~testMode /\ skey = "absent" THEN "sendgrid"
    ELSE "none"

\* The checks of __init__, in order; "none" when both pass.
ConfigError(testMode, okey, skey) ==
    IF ~Truthy(okey) THEN "openai"
    ELSE IF ~testMode /\ ~Truthy(skey) THEN "sendgrid"
    ELSE "none"

Init ==
    /\ TEST_MODE \in BOOLEAN
    /\ openaiKey \in EnvValues
    /\ sendgridKey \in EnvValues
    /\ pc = "start"
    /\ mainResult = "running"
    /\ agentsReady = FALSE
    /\ toolsReady = FALSE
    /\ testSends = 0
    /\ testAnswer = NoAnswer
    /\ branch = [i \in Generators |-> "idle"]
    /\ genOut = [i \in Generators |-> NoText]
    /\ order = << >>
    /\ outputs = << >>
    /\ pickerCalls = 0
    /\ pickerPrompt = << >>
    /\ best = NoText
    /\ curAgent = "none"
    /\ turns = 0
    /\ drafted = {}
    /\ handoffs = 0
    /\ subjectDone = FALSE
    /\ htmlDone = FALSE
    /\ sendAttempts = 0
    /\ providerPosts = 0
    /\ lastSend = NoSend
    /\ lastAnswer = NoAnswer
    /\ lastTool = "none"
    /\ finalOutput = NoText
    /\ errors = {}

\* main: sales_system = SalesAgentSystem(), and the except ValueError arm.
Construct ==
    /\ pc = "start"
    /\ IF ConfigError(TEST_MODE, openaiKey, sendgridKey) # "none"
       THEN /\ pc' = "done"
            /\ mainResult' = "configuration_error"
            /\ errors' = errors \cup {"configuration"}
            /\ UNCHANGED setupVars
       ELSE /\ agentsReady' = TRUE
            /\ toolsReady' = TRUE
            /\ pc' = "step1"
            /\ UNCHANGED << mainResult, errors >>
    /\ UNCHANGED << configVars, testVars, gatherVars, pickerVars, sdrVars >>

\* -------------------------------------------------------- send_test_email
\* SendTestEmail without the status code comparison: any answer counts.
SendTestEmailAnyStatus(testMode, raised, code) ==
    IF testMode THEN TRUE
    ELSE ~raised

\* Return value of send_test_email: raised = the provider call raised,
\* code = the status code it answered otherwise.
SendTestEmail(testMode, raised, code) ==
    IF testMode THEN TRUE
    ELSE IF raised THEN FALSE
    ELSE code = ACCEPTED

\* main, step 1: the test email when TEST_MODE is off, skipped otherwise.
Step1 ==
    /\ pc = "step1"
    /\ IF TEST_MODE
       THEN /\ pc' = "basic"
            /\ UNCHANGED << testSends, testAnswer, mainResult >>
       ELSE \E raised \in BOOLEAN, code \in StatusCodes :
            /\ testSends' = testSends + 1
            /\ testAnswer' = Answer(raised, code)
            /\ IF SendTestEmail(TEST_MODE, raised, code)
               THEN /\ pc' = "basic"
                    /\ UNCHANGED mainResult
               ELSE /\ pc' = "done"
                    /\ mainResult' = "email_test_failed"
    /\ UNCHANGED << configVars, setupVars, gatherVars, pickerVars, sdrVars,
                    errors >>

\* ------------------------------------------------ generate_parallel_emails
\* GatherDone as a wait for the first completion only.
GatherDoneAny(b) == \E i \in Generators : b[i] = "done"

\* asyncio.gather hands back its result list once every child is done.
GatherDone(b) == \A i \in Generators : b[i] = "done"

\* asyncio.gather (return_exceptions left False) raises as soon as a child
\* has failed.
GatherFailed(b) == \E i \in Generators : b[i] = "failed"

\* GatherResults collecting the results as the children complete.
GatherResultsByCompletion(out, ord) ==
    [k \in Generators |-> IF k <= Len(ord) THEN out[ord[k]] ELSE NoText]

\* The list gather returns, then [result.final_output for result in results]:
\* one slot per child, in the order the children were passed.
GatherResults(out, ord) == [i \in Generators |-> out[i]]

\* run_basic_workflow calls generate_parallel_emails: gather schedules the
\* three Runner.run coroutines and the caller suspends.
StartGather ==
    /\ pc = "basic"
    /\ pc' = "gather"
    /\ branch' = [i \in Generators |-> "running"]
    /\ UNCHANGED << configVars, setupVars, mainResult, testVars, genOut,
                    order, outputs, pickerVars, sdrVars, errors >>

\* Runner.run(self.sales_agent<i>, message) completes with a final output.
BranchComplete(i, t) ==
    /\ branch[i] = "running"
    /\ branch' = [branch EXCEPT ![i] = "done"]
    /\ genOut' = [genOut EXCEPT ![i] = t]
    /\ order' = Append(order, i)
    /\ UNCHANGED << configVars, setupVars, pc, mainResult, testVars,
                    outputs, pickerVars, sdrVars, errors >>

\* Runner.run(self.sales_agent<i>, message) raises.
BranchFail(i) ==
    /\ branch[i] = "running"
    /\ branch' = [branch EXCEPT ![i] = "failed"]
    /\ errors' = errors \cup {"generation"}
    /\ UNCHANGED << configVars, setupVars, pc, mainResult, testVars,
                    genOut, order, outputs, pickerVars, sdrVars >>

\* The await on gather returns; outputs is built and returned.
GatherReturn ==
    /\ pc = "gather"
    /\ GatherDone(branch)
    /\ outputs' = GatherResults(genOut, order)
    /\ pc' = "select"
    /\ UNCHANGED << configVars, setupVars, mainResult, testVars, branch,
                    genOut, order, pickerVars, sdrVars, errors >>

\* The await on gather raises; the exception leaves run_basic_workflow and
\* reaches main's except Exception arm. asyncio.run then cancels the
\* branches that are still running.
GatherRaise ==
    /\ pc = "gather"
    /\ GatherFailed(branch)
    /\ pc' = "done"
    /\ mainResult' = "unexpected_error"
    /\ branch' = [i \in Generators |->
                    IF branch[i] = "running" THEN "cancelled" ELSE branch[i]]
    /\ UNCHANGED << configVars, setupVars, testVars, genOut, order,
                    outputs, pickerVars, sdrVars, errors >>

\* ------------------------------------------------------- select_best_email
\* The picker agent answers t, which select_best_email returns as is.
SelectReturn(t) ==
    /\ pc = "select"
    /\ pickerPrompt' = EmailOptions(outputs)
    /\ pickerCalls' = pickerCalls + 1
    /\ best' = t
    /\ pc' = "selected"
    /\ UNCHANGED << configVars, setupVars, mainResult, testVars,
                    gatherVars, sdrVars, errors >>

\* Runner.run(self.sales_picker, ...) raises; nothing catches it before main.
SelectFail ==
    /\ pc = "select"
    /\ pickerPrompt' = EmailOptions(outputs)
    /\ pickerCalls' = pickerCalls + 1
    /\ errors' = errors \cup {"selection"}
    /\ pc' = "done"
    /\ mainResult' = "unexpected_error"
    /\ UNCHANGED << configVars, setupVars, testVars, gatherVars, best,
                    sdrVars >>

\* run_basic_workflow prints and returns; main drops the value and calls
\* run_automated_sdr, which starts Runner.run(self.sales_manager, message).
StartSdr ==
    /\ pc = "selected"
    /\ agentsReady /\ toolsReady
    /\ pc' = "sdr"
    /\ curAgent' = "manager"
    /\ branch' = [i \in Generators |-> "idle"]
    /\ genOut' = [i \in Generators |-> NoText]
    /\ order' = << >>
    /\ outputs' = << >>
    /\ pickerPrompt' = << >>
    /\ best' = NoText
    /\ UNCHANGED << configVars, setupVars, mainResult, testVars,
                    pickerCalls, turns, drafted, handoffs, subjectDone,
                    htmlDone, sendAttempts, providerPosts, lastSend, lastAnswer, lastTool,
                    finalOutput, errors >>

\* -------------------------------------------------------------- send_email
\* SendEmail without the status code comparison: every answer is a success.
SendEmailAnyStatus(testMode, raised, code) ==
    IF testMode
    THEN [status |-> "success", status_code |-> ACCEPTED, message |-> ""]
    ELSE IF raised
    THEN [status |-> "error", status_code |-> 0, message |-> "exception"]
    ELSE [status |-> "success", status_code |-> code, message |-> ""]

\* Return value of send_email. status_code 0 and message "" stand for a key
\* the returned dict does not have.
SendEmail(testMode, raised, code) ==
    IF testMode
    THEN [status |-> "success", status_code |-> ACCEPTED, message |-> ""]
    ELSE IF raised
    THEN [status |-> "error", status_code |-> 0, message |-> "exception"]
    ELSE IF code = ACCEPTED
    THEN [status |-> "success", status_code |-> code, message |-> ""]
    ELSE [status |-> "error", status_code |-> code, message |-> ""]

\* Provider calls one send tool call makes: none in the TEST_MODE branch,
\* the single post of the try block otherwise.
ProviderContacts(testMode) == IF testMode THEN 0 ELSE 1

\* --------------------------------------------------------- send_html_email
\* Return value of send_html_email.
SendHtmlEmail(testMode, raised, code) ==
    IF testMode
    THEN [status |-> "success", status_code |-> ACCEPTED, message |-> ""]
    ELSE IF raised
    THEN [status |-> "error", status_code |-> 0, message |-> "exception"]
    ELSE IF code = ACCEPTED
    THEN [status |-> "success", status_code |-> code, message |-> ""]
    ELSE [status |-> "error", status_code |-> code, message |-> ""]

\* What a final output tells the operator about the send.
Reports == {"success", "error", "other"}

\* ------------------------------------------------- Runner.run(sales_manager)
\* tools=[tool1, tool2, tool3] of the Sales Manager.
ManagerTools == Generators

\* The Sales Manager calls generator tool i and gets a draft back.
ManagerCallsGenerator(i) ==
    /\ pc = "sdr" /\ curAgent = "manager" /\ turns < MaxTurns
    /\ i \in ManagerTools
    /\ drafted' = drafted \cup {i}
    /\ turns' = turns + 1
    /\ UNCHANGED << configVars, setupVars, pc, mainResult, testVars,
                    gatherVars, pickerVars, curAgent, handoffs, subjectDone,
                    htmlDone, sendAttempts, providerPosts, lastSend, lastAnswer, lastTool,
                    finalOutput, errors >>

\* handoffs=[emailer_agent]: the Sales Manager hands the run over.
ManagerHandoff ==
    /\ pc = "sdr" /\ curAgent = "manager" /\ turns < MaxTurns
    /\ curAgent' = "emailer"
    /\ handoffs' = handoffs + 1
    /\ turns' = turns + 1
    /\ UNCHANGED << configVars, setupVars, pc, mainResult, testVars,
                    gatherVars, pickerVars, drafted, subjectDone, htmlDone,
                    sendAttempts, providerPosts, lastSend, lastAnswer, lastTool, finalOutput,
                    errors >>

\* tools=[subject_tool, html_tool, send_html_email] of the Email Manager.
EmailerSubject ==
    /\ pc = "sdr" /\ curAgent = "emailer" /\ turns < MaxTurns
    /\ subjectDone' = TRUE
    /\ turns' = turns + 1
    /\ UNCHANGED << configVars, setupVars, pc, mainResult, testVars,
                    gatherVars, pickerVars, curAgent, drafted, handoffs,
                    htmlDone, sendAttempts, providerPosts, lastSend, lastAnswer, lastTool,
                    finalOutput, errors >>

EmailerHtml ==
    /\ pc = "sdr" /\ curAgent = "emailer" /\ turns < MaxTurns
    /\ htmlDone' = TRUE
    /\ turns' = turns + 1
    /\ UNCHANGED << configVars, setupVars, pc, mainResult, testVars,
                    gatherVars, pickerVars, curAgent, drafted, handoffs,
                    subjectDone, sendAttempts, providerPosts, lastSend, lastAnswer, lastTool,
                    finalOutput, errors >>

\* The Email Manager calls send_html_email; the result goes back to it.
EmailerSend(raised, code) ==
    /\ pc = "sdr" /\ curAgent = "emailer" /\ turns < MaxTurns
    /\ sendAttempts' = sendAttempts + 1
    /\ providerPosts' = providerPosts + ProviderContacts(TEST_MODE)
    /\ lastSend' = SendHtmlEmail(TEST_MODE, raised, code)
    /\ lastAnswer' = IF TEST_MODE THEN NoAnswer ELSE Answer(raised, code)
    /\ lastTool' = "send_html_email"
    /\ errors' = IF lastSend'.status = "error"
                 THEN errors \cup {"send"} ELSE errors
    /\ turns' = turns + 1
    /\ UNCHANGED << configVars, setupVars, pc, mainResult, testVars,
                    gatherVars, pickerVars, curAgent, drafted, handoffs,
                    subjectDone, htmlDone, finalOutput >>

\* The current agent answers without a tool call: Runner.run returns,
\* run_automated_sdr prints result.final_output and returns, and main
\* prints its completion message.
RunReturns(r) ==
    /\ pc = "sdr" /\ curAgent \in {"manager", "emailer"}
    /\ finalOutput' = r
    /\ pc' = "done"
    /\ mainResult' = "completed"
    /\ UNCHANGED << configVars, setupVars, testVars, gatherVars,
                    pickerVars, curAgent, turns, drafted, handoffs,
                    subjectDone, htmlDone, sendAttempts, providerPosts,
                    lastSend, lastAnswer, lastTool, errors >>

\* Runner.run(self.sales_manager, message) raises; main's except Exception
\* arm reports it.
RunRaises ==
    /\ pc = "sdr" /\ curAgent \in {"manager", "emailer"}
    /\ errors' = errors \cup {"agent"}
    /\ pc' = "done"
    /\ mainResult' = "unexpected_error"
    /\ UNCHANGED << configVars, setupVars, testVars, gatherVars,
                    pickerVars, sdrVars >>

Next ==
    \/ Construct
    \/ Step1
    \/ StartGather
    \/ \E i \in Generators, t \in Texts : BranchComplete(i, t)
    \/ \E i \in Generators : BranchFail(i)
    \/ GatherReturn
    \/ GatherRaise
    \/ \E t \in AllTexts : SelectReturn(t)
    \/ SelectFail
    \/ StartSdr
    \/ \E i \in Generators : ManagerCallsGenerator(i)
    \/ ManagerHandoff
    \/ EmailerSubject
    \/ EmailerHtml
    \/ \E raised \in BOOLEAN, code \in StatusCodes : EmailerSend(raised, code)
    \/ \E r \in Reports : RunReturns(r)
    \/ RunRaises

Spec == Init /\ [][Next]_vars

\* ------------------------------------------- select_best_email on its own
\* select_best_email applied to any candidate list of at most MaxLen texts.
InitSelect ==
    /\ TEST_MODE = FALSE
    /\ openaiKey = "set"
    /\ sendgridKey = "set"
    /\ pc = "select"
    /\ mainResult = "running"
    /\ agentsReady = TRUE
    /\ toolsReady = TRUE
    /\ testSends = 0
    /\ testAnswer = NoAnswer
    /\ branch = [i \in Generators |-> "idle"]
    /\ genOut = [i \in Generators |-> NoText]
    /\ order = << >>
    /\ outputs \in BoundedSeq(Texts, MaxLen)
    /\ pickerCalls = 0
    /\ pickerPrompt = << >>
    /\ best = NoText
    /\ curAgent = "none"
    /\ turns = 0
    /\ drafted = {}
    /\ handoffs = 0
    /\ subjectDone = FALSE
    /\ htmlDone = FALSE
    /\ sendAttempts = 0
    /\ providerPosts = 0
    /\ lastSend = NoSend
    /\ lastAnswer = NoAnswer
    /\ lastTool = "none"
    /\ finalOutput = NoText
    /\ errors = {}

NextSelect ==
    \/ \E t \in AllTexts : SelectReturn(t)
    \/ SelectFail

SpecSelect == InitSelect /\ [][NextSelect]_vars

\* ------------------------------------------------- the send tools on their own
\* send_email and send_html_email called directly, in either mode and with
\* any value of SENDGRID_API_KEY.
InitSend ==
    /\ TEST_MODE \in BOOLEAN
    /\ openaiKey = "set"
    /\ sendgridKey \in EnvValues
    /\ pc = "tool"
    /\ mainResult = "running"
    /\ agentsReady = FALSE
    /\ toolsReady = FALSE
    /\ testSends = 0
    /\ testAnswer = NoAnswer
    /\ branch = [i \in Generators |-> "idle"]
    /\ genOut = [i \in Generators |-> NoText]
    /\ order = << >>
    /\ outputs = << >>
    /\ pickerCalls = 0
    /\ pickerPrompt = << >>
    /\ best = NoText
    /\ curAgent = "none"
    /\ turns = 0
    /\ drafted = {}
    /\ handoffs = 0
    /\ subjectDone = FALSE
    /\ htmlDone = FALSE
    /\ sendAttempts = 0
    /\ providerPosts = 0
    /\ lastSend = NoSend
    /\ lastAnswer = NoAnswer
    /\ lastTool = "none"
    /\ finalOutput = NoText
    /\ errors = {}

\* One call of send_email(body).
CallSendEmail(raised, code) ==
    /\ pc = "tool" /\ sendAttempts < MaxCalls
    /\ sendAttempts' = sendAttempts + 1
    /\ providerPosts' = providerPosts + ProviderContacts(TEST_MODE)
    /\ lastSend' = SendEmail(TEST_MODE, raised, code)
    /\ lastAnswer' = IF TEST_MODE THEN NoAnswer ELSE Answer(raised, code)
    /\ lastTool' = "send_email"
    /\ UNCHANGED << configVars, setupVars, pc, mainResult, testVars,
                    gatherVars, pickerVars, curAgent, turns, drafted,
                    handoffs, subjectDone, htmlDone, finalOutput, errors >>

\* One call of send_html_email(subject, html_body).
CallSendHtmlEmail(raised, code) ==
    /\ pc = "tool" /\ sendAttempts < MaxCalls
    /\ sendAttempts' = sendAttempts + 1
    /\ providerPosts' = providerPosts + ProviderContacts(TEST_MODE)
    /\ lastSend' = SendHtmlEmail(TEST_MODE, raised, code)
    /\ lastAnswer' = IF TEST_MODE THEN NoAnswer ELSE Answer(raised, code)
    /\ lastTool' = "send_html_email"
    /\ UNCHANGED << configVars, setupVars, pc, mainResult, testVars,
                    gatherVars, pickerVars, curAgent, turns, drafted,
                    handoffs, subjectDone, htmlDone, finalOutput, errors >>

NextSend ==
    \/ \E raised \in BOOLEAN, code \in StatusCodes :
          CallSendEmail(raised, code)
    \/ \E raised \in BOOLEAN, code \in StatusCodes :
          CallSendHtmlEmail(raised, code)

SpecSend == InitSend /\ [][NextSend]_vars

\* ================================================================= claims

\* C1: in any run of the manager workflow send_html_email is invoked at
\* most once, and not at all when the manager never delegates.
C1_SendAtMostOnce ==
    /\ sendAttempts <= 1
    /\ handoffs = 0 => sendAttempts = 0

\* C2: once generate_parallel_emails has returned, it has returned exactly
\* NumGenerators outputs and outputs[i] is the output generator i produced,
\* whatever the order in which the branches completed.
C2_FanOutOrdered ==
    pc \in {"select", "selected"} =>
        /\ Len(outputs) = NumGenerators
        /\ \A i \in Generators :
              outputs[i] = genOut[i] /\ outputs[i] \in Texts

\* C2 witness: the fan-out has returned after the branches completed in the
\* order 3, 1, 2 with three different texts.
C2_Witness ==
    /\ pc = "select"
    /\ order = << 3, 1, 2 >>
    /\ genOut[1] # genOut[2] /\ genOut[2] # genOut[3] /\ genOut[1] # genOut[3]

\* C3: for a non-empty candidate list, the text select_best_email returns
\* is one of the candidates (on a singleton: that candidate).
C3_SelectorReturnsCandidate ==
    (pc = "selected" /\ Len(outputs) > 0) => best \in Range(outputs)

\* C4: select_best_email on an empty candidate list fails with an error,
\* returns no text and does not invoke the picker agent.
C4_EmptyRejected ==
    Len(outputs) = 0 =>
        /\ pickerCalls = 0
        /\ best = NoText
        /\ pc # "select" => mainResult = "unexpected_error"

\* C5: a run of the Email Manager chain that completes without a send error
\* has invoked send_html_email exactly once.
C5_ChainSendsExactlyOnce ==
    (pc = "done" /\ mainResult = "completed" /\ handoffs > 0
        /\ "send" \notin errors) => sendAttempts = 1

\* C6: when the provider rejected the send, the completed manager run
\* reports the error as its final result, made exactly one send attempt and
\* delegated exactly once.
C6_SendErrorIsFinal ==
    (pc = "done" /\ mainResult = "completed" /\ "send" \in errors) =>
        /\ finalOutput = "error"
        /\ sendAttempts = 1
        /\ handoffs = 1

\* C7: the manager delegates only when all three generator drafts have been
\* obtained, and after delegating it neither collects drafts nor delegates
\* again.
C7_PhasesOrdered ==
    [][ /\ handoffs' > handoffs => drafted = Generators
        /\ handoffs > 0 => (drafted' = drafted /\ handoffs' = handoffs)
      ]_vars

\* C8: the await on the fan-out returns only when every branch is done and
\* raises only when some branch has failed, and the picker agent is never
\* invoked while a generator branch is running.
C8_JoinBarrier ==
    [][ /\ (pc = "gather" /\ pc' = "select") =>
              \A i \in Generators : branch[i] = "done"
        /\ (pc = "gather" /\ pc' \notin {"gather", "select"}) =>
              \E i \in Generators : branch[i] = "failed"
        /\ pickerCalls' > pickerCalls =>
              \A i \in Generators : branch[i] # "running"
      ]_vars

\* C8 witness: the picker has been invoked after all three branches, which
\* completed out of order, were done.
C8_Witness ==
    /\ pc = "selected"
    /\ pickerCalls = 1
    /\ order = << 2, 3, 1 >>
    /\ \A i \in Generators : branch[i] = "done"

\* C9: every generation, selection and send error ends the run as an error
\* reported by main, and a failed generator branch keeps the picker from
\* being invoked.
C9_ErrorsBubble ==
    /\ (pc = "done" /\ errors \cap {"generation", "selection", "send"} # {})
          => mainResult = "unexpected_error"
    /\ "generation" \in errors => pickerCalls = 0

\* C10: with OPENAI_API_KEY missing, or SENDGRID_API_KEY missing while
\* TEST_MODE is off, no agent or tool is ever set up, no agent is invoked,
\* no send is attempted, and main ends in its configuration-error arm.
C10_MissingCredentialFatal ==
    (openaiKey # "set" \/ (~TEST_MODE /\ sendgridKey # "set")) =>
        /\ ~agentsReady /\ ~toolsReady
        /\ \A i \in Generators : branch[i] = "idle"
        /\ pickerCalls = 0
        /\ curAgent = "none" /\ turns = 0
        /\ sendAttempts = 0 /\ providerPosts = 0 /\ testSends = 0
        /\ pc \in {"start", "done"}
        /\ pc = "done" => mainResult = "configuration_error"

\* C10 witness: main has ended on an empty SENDGRID_API_KEY with TEST_MODE
\* off and OPENAI_API_KEY present.
C10_Witness ==
    /\ pc = "done"
    /\ mainResult = "configuration_error"
    /\ ~TEST_MODE
    /\ openaiKey = "set"
    /\ sendgridKey = "empty"

\* Some generator, picker or manager agent has been invoked.
AgentInvoked ==
    \/ \E i \in Generators : branch[i] # "idle"
    \/ pickerCalls > 0
    \/ curAgent # "none"

\* C11: with TEST_MODE off, an agent is invoked only after the provider
\* accepted the test email with 202; after any other answer or an exception
\* main has returned with neither workflow started; the basic workflow makes
\* no send attempt, and the manager run starts only after the basic workflow
\* ran to its end without an error.
C11_TestEmailGatesWorkflows ==
    ~TEST_MODE =>
        /\ AgentInvoked =>
              /\ testSends = 1
              /\ testAnswer.posted /\ ~testAnswer.raised
              /\ testAnswer.code = ACCEPTED
        /\ (testAnswer.posted
              /\ (testAnswer.raised \/ testAnswer.code # ACCEPTED)) =>
              /\ pc = "done" /\ mainResult = "email_test_failed"
              /\ ~AgentInvoked
              /\ sendAttempts = 0
        /\ pc \in {"basic", "gather", "select", "selected"} =>
              /\ curAgent = "none"
              /\ sendAttempts = 0 /\ providerPosts = 0
        /\ curAgent # "none" =>
              /\ pickerCalls = 1
              /\ errors \cap {"generation", "selection"} = {}

\* C11 witness: with TEST_MODE off the test email was accepted, the basic
\* workflow has run and the manager run has started.
C11_Witness ==
    /\ ~TEST_MODE
    /\ testAnswer = Answer(FALSE, ACCEPTED)
    /\ pickerCalls = 1
    /\ pc = "sdr" /\ curAgent = "manager"

====
